---------------------------- MODULE Spec2Model ----------------------------
(* SRF (Simple Record Format) record codec and positional operations of     *)
(* go-srf: Write / RawWrite / WriteRecord / Read / ReadAll (srf.go) and      *)
(* Count / Extract / Copy / skipRead (dataset operations).                   *)
(*                                                                           *)
(* Streams are sequences of bytes (0..255).  A reader is a stream plus a     *)
(* position.  Errors are strings; "nil" is the absence of an error.          *)
EXTENDS Integers, Sequences, FiniteSets, TLC

VARIABLES
    src,      \* bytes of the source stream (a bytes.Buffer filled by Write)
    written,  \* the arguments of the Write calls that produced src, in order
    damage,   \* what was done to src after writing: "none", "trunc", "bits",
              \* "magic", "magic+bits", "frame"
    pos,      \* read position of the reader over src
    dst,      \* bytes of the destination stream of Copy
    res,      \* the last read-side operation and what it returned
    prev,     \* the operation that ran on the same reader before res, if any
    phase     \* "open": stream under construction, "done": operation ran,
              \* "panic": Write aborted with a run-time panic

vars == <<src, written, damage, pos, dst, res, prev, phase>>

-----------------------------------------------------------------------------
(* Bounds of the model. *)

\* longest record body, in bytes
MaxBody == 2
\* most records in a stream of the positional operations
MaxRecs == 3
\* most complete records before the cut of a truncated stream
MaxTruncRecs == 1
\* largest per-call limit of a reader that returns short reads
MaxChunk == 2

-----------------------------------------------------------------------------
(* Program constants. *)

\* "SRF0"
Magic == <<83, 82, 70, 48>>
TypeBinary == 1
TypeText == 2
TypeJSON == 3
\* bytes of the fixed header: magic, type+flags, metaLength, bodyLength
HeaderLen == 20

Min(a, b) == IF a < b THEN a ELSE b
Max(a, b) == IF a < b THEN b ELSE a

\* the element of a one-element set; Only({e(r) : r \in {v}}) is e with r
\* bound to the value of v
Only(S) == CHOOSE y \in S : TRUE

Take(s, n) == SubSeq(s, 1, Min(n, Len(s)))

-----------------------------------------------------------------------------
(* encoding/binary, little endian. *)

RECURSIVE LittleEndian(_, _)
\* binary.Write(dst, binary.LittleEndian, n) for an unsigned integer of w bytes
LittleEndian(n, w) ==
    IF w = 0 THEN <<>> ELSE <<n % 256>> \o LittleEndian(n \div 256, w - 1)

RECURSIVE LittleEndianValue(_)
\* the unsigned integer binary.Read decodes from the bytes b
LittleEndianValue(b) ==
    IF b = <<>> THEN 0 ELSE Head(b) + 256 * LittleEndianValue(Tail(b))

-----------------------------------------------------------------------------
(* zstd frames (github.com/klauspost/compress/zstd), as the codec uses them: *)
(* EncodeAll wraps the input in a frame (magic number, content size, block,  *)
(* checksum); EncodeAll of no bytes yields no bytes; DecodeAll of no bytes   *)
(* yields no bytes; DecodeAll rejects anything that is not a whole frame.    *)

\* 0xFD2FB528, little endian
ZstdMagic == <<40, 181, 47, 253>>

RECURSIVE ByteSum(_)
ByteSum(b) == IF b = <<>> THEN 0 ELSE (Head(b) + ByteSum(Tail(b))) % 256

\* the frame checksum (WithEncoderCRC(true)); never equal to the plain sum,
\* so a frame is never its own payload
FrameCheck(b) == (ByteSum(b) + 1) % 256

EncodeAll(b) ==
    IF b = <<>> THEN <<>>
    ELSE ZstdMagic \o <<Len(b)>> \o b \o <<FrameCheck(b)>>

\* [err, data]
DecodeAll(f) ==
    IF f = <<>> THEN [err |-> "nil", data |-> <<>>]
    ELSE IF Len(f) < 6 \/ Take(f, 4) # ZstdMagic
             \/ f[5] # Len(f) - 6
             \/ f[Len(f)] # FrameCheck(SubSeq(f, 6, Len(f) - 1))
         THEN [err |-> "CorruptFrame", data |-> <<>>]
         ELSE [err |-> "nil", data |-> SubSeq(f, 6, Len(f) - 1)]

-----------------------------------------------------------------------------
(* Metadata values handed to Write (meta any) and encoding/json.             *)
(* A metadata value is [kind, val]: kind "nil" is the untyped nil interface, *)
(* "nilptr" a typed nil pointer/map/slice, "slice" a non-nil []int, "array"  *)
(* an array value [n]int (a kind reflect.Value.IsNil does not accept).       *)

RECURSIVE JsonItems(_)
JsonItems(v) ==
    IF v = <<>> THEN <<>>
    ELSE IF Len(v) = 1 THEN <<48 + v[1]>>
    ELSE <<48 + v[1], 44>> \o JsonItems(Tail(v))

\* json.Marshal of a slice or array of single-digit integers: "[1,2]"
JsonMarshal(v) == <<91>> \o JsonItems(v) \o <<93>>

NilableKinds == {"nilptr", "slice"}

\* reflect.ValueOf(meta).IsNil(): panics unless the kind can be nil
IsNilPanics(meta) == meta.kind \notin ({"nil"} \cup NilableKinds)

-----------------------------------------------------------------------------
(* Writing. All writers are bytes.Buffer: a write appends and cannot fail.   *)

\* the type+flags word as it would be without the mask: t := uint32(rType)
TypeFlagsWordUnmasked(rType, isCompressed) ==
    <<rType % 256, (rType \div 256) % 256, 0, IF isCompressed THEN 128 ELSE 0>>

\* the type+flags word as RawWrite lays it out (4 bytes, little endian):
\* bits 0-7 the type, bit 31 (bit 7 of the last byte) the compressed flag
TypeFlagsWord(rType, isCompressed) ==
    <<rType % 256, 0, 0, IF isCompressed THEN 128 ELSE 0>>

\* RawWrite as it would be with the body written ahead of the metadata
RawWriteBodyFirst(rType, rawMeta, rawRecord, isCompressed) ==
    Magic
    \o TypeFlagsWord(rType, isCompressed)
    \o LittleEndian(Len(rawMeta), 4)
    \o LittleEndian(Len(rawRecord), 8)
    \o rawRecord
    \o rawMeta

\* the bytes RawWrite appends to dst
RawWrite(rType, rawMeta, rawRecord, isCompressed) ==
    LET lenMeta == IF Len(rawMeta) > 0 THEN Len(rawMeta) ELSE 0
        lenRecord == Len(rawRecord)
    IN  Magic
        \o TypeFlagsWord(rType, isCompressed)
        \o LittleEndian(lenMeta, 4)
        \o LittleEndian(lenRecord, 8)
        \o (IF lenMeta > 0 THEN rawMeta ELSE <<>>)
        \o rawRecord

\* hasMeta := meta != nil && !reflect.ValueOf(meta).IsNil()
WriteHasMeta(meta) == meta.kind # "nil" /\ meta.kind # "nilptr"

\* Write(dst, recordType, data, meta, compress): [panic, err, bytes]
Write(recordType, data, meta, compress) ==
    IF meta.kind # "nil" /\ IsNilPanics(meta)
    THEN [panic |-> TRUE, err |-> "nil", bytes |-> <<>>]
    ELSE LET hasMeta == WriteHasMeta(meta)
             rawMeta == IF hasMeta THEN EncodeAll(JsonMarshal(meta.val)) ELSE <<>>
             rawRecord == IF compress THEN EncodeAll(data) ELSE data
         IN  [panic |-> FALSE, err |-> "nil",
              bytes |-> RawWrite(recordType, rawMeta, rawRecord, compress)]

\* WriteRecord as it would be if the compressed flag were raised only when
\* a compressed body block is stored
WriteRecordFlagByBlock(r, compress) ==
    LET hasMeta == Len(r.meta) > 0
        rawMeta == IF hasMeta THEN EncodeAll(r.meta) ELSE <<>>
        rawRecord == IF compress THEN EncodeAll(r.body) ELSE r.body
    IN  RawWrite(r.recordType, rawMeta, rawRecord, compress /\ rawRecord # <<>>)

\* WriteRecord(dst, r, compress): the bytes appended to dst
WriteRecord(r, compress) ==
    LET hasMeta == Len(r.meta) > 0
        rawMeta == IF hasMeta THEN EncodeAll(r.meta) ELSE <<>>
        rawRecord == IF compress THEN EncodeAll(r.body) ELSE r.body
    IN  RawWrite(r.recordType, rawMeta, rawRecord, compress)

-----------------------------------------------------------------------------
(* Reading.  A reader is (s, p): the stream and the bytes consumed so far.   *)

Avail(s, p) == Len(s) - p

\* ReadFull as it would be if running out of input were always reported as
\* io.ErrUnexpectedEOF, also when no byte was read
ReadFullNeverEOF(s, p, n) ==
    IF n = 0 THEN [err |-> "nil", data |-> <<>>, pos |-> p]
    ELSE IF Avail(s, p) >= n
         THEN [err |-> "nil", data |-> SubSeq(s, p + 1, p + n), pos |-> p + n]
    ELSE [err |-> "ErrUnexpectedEOF", data |-> <<>>, pos |-> Len(s)]

\* io.ReadFull(r, buf) with len(buf) = n: [err, data, pos]
\* io.EOF when no byte could be read, io.ErrUnexpectedEOF after some
ReadFull(s, p, n) ==
    IF n = 0 THEN [err |-> "nil", data |-> <<>>, pos |-> p]
    ELSE IF Avail(s, p) >= n
         THEN [err |-> "nil", data |-> SubSeq(s, p + 1, p + n), pos |-> p + n]
    ELSE IF Avail(s, p) = 0
         THEN [err |-> "EOF", data |-> <<>>, pos |-> p]
    ELSE [err |-> "ErrUnexpectedEOF", data |-> <<>>, pos |-> Len(s)]

\* one call r.Read(buf) with len(buf) = n > 0 on a reader that hands out at
\* most chunk bytes per call (chunk = 0: no limit, as bytes.Reader): [err, pos]
ReadOnce(s, p, n, chunk) ==
    IF Avail(s, p) = 0 THEN [err |-> "EOF", pos |-> p]
    ELSE LET k == Min(n, Avail(s, p))
         IN  [err |-> "nil", pos |-> p + (IF chunk = 0 THEN k ELSE Min(k, chunk))]

\* validateHeader as it would be if only the first two bytes of the magic
\* were compared
validateHeaderShort(s, p) ==
    LET rd == ReadFull(s, p, 4)
    IN  IF rd.err # "nil" THEN [err |-> rd.err, pos |-> rd.pos]
        ELSE IF Take(rd.data, 2) # Take(Magic, 2)
             THEN [err |-> "ErrInvalidHeader", pos |-> rd.pos]
        ELSE [err |-> "nil", pos |-> rd.pos]

\* validateHeader(r): [err, pos]
validateHeader(s, p) ==
    LET rd == ReadFull(s, p, 4)
    IN  IF rd.err # "nil" THEN [err |-> rd.err, pos |-> rd.pos]
        ELSE IF rd.data # Magic THEN [err |-> "ErrInvalidHeader", pos |-> rd.pos]
        ELSE [err |-> "nil", pos |-> rd.pos]

\* the reserved-bit test with the mask 0xFFFF, which takes in the
\* compressed flag
ReservedBitsSetWide(w) == w[3] # 0 \/ w[4] # 0

\* ((v >> 16) & 0x7F) != 0 on the little-endian bytes w of v
ReservedBitsSet(w) == w[3] % 128 # 0
\* uint16(v & 0xFF)
WordType(w) == w[1]
\* the flag test with the shift off by one: (v>>30)&0x1 == 1
WordCompressedBit30(w) == (w[4] \div 64) % 2 = 1
\* (v>>31)&0x1 == 1
WordCompressed(w) == w[4] \div 128 = 1

NoRecord == [recordType |-> 0, meta |-> <<>>, body |-> <<>>]

\* (r *record).read(src) behind Read(src): [err, rec, pos]
Read(s, p) ==
    LET fail(e, q) == [err |-> e, rec |-> NoRecord, pos |-> q]
        h == validateHeader(s, p)
    IN  IF h.err # "nil" THEN fail(h.err, h.pos) ELSE
        LET v == ReadFull(s, h.pos, 4)
        IN  IF v.err # "nil" THEN fail(v.err, v.pos) ELSE
            IF ReservedBitsSet(v.data) THEN fail("ErrInvalidZeroBits", v.pos) ELSE
        LET compressed == WordCompressed(v.data)
            m == ReadFull(s, v.pos, 4)
        IN  IF m.err # "nil" THEN fail(m.err, m.pos) ELSE
        LET d == ReadFull(s, m.pos, 8)
        IN  IF d.err # "nil" THEN fail(d.err, d.pos) ELSE
        LET szMeta == LittleEndianValue(m.data)
            szData == LittleEndianValue(d.data)
            mb == ReadFull(s, d.pos, szMeta)
        IN  IF mb.err # "nil" THEN fail(mb.err, mb.pos) ELSE
        LET meta == DecodeAll(mb.data)
        IN  IF meta.err # "nil" THEN fail(meta.err, mb.pos) ELSE
        LET bb == ReadFull(s, mb.pos, szData)
        IN  IF bb.err # "nil" THEN fail(bb.err, bb.pos) ELSE
        LET body == IF compressed THEN DecodeAll(bb.data)
                    ELSE [err |-> "nil", data |-> bb.data]
        IN  IF body.err # "nil" THEN fail(body.err, bb.pos)
            ELSE [err |-> "nil",
                  rec |-> [recordType |-> WordType(v.data),
                           meta |-> meta.data, body |-> body.data],
                  pos |-> bb.pos]

\* (r *record).HasMeta()
HasMeta(r) == Len(r.meta) > 0

\* one discarding read of skipRead: if n > 0 { buf := make([]byte, n);
\* if _, err := src.Read(buf); err != nil { return err } }: [err, pos]
SkipBlock(s, p, n, chunk) ==
    IF n > 0 THEN ReadOnce(s, p, n, chunk) ELSE [err |-> "nil", pos |-> p]

\* skipRead(src): [err, pos]
skipRead(s, p, chunk) ==
    LET fail(e, q) == [err |-> e, pos |-> q]
        h == validateHeader(s, p)
    IN  IF h.err # "nil" THEN fail(h.err, h.pos) ELSE
        LET v == ReadFull(s, h.pos, 4)
        IN  IF v.err # "nil" THEN fail(v.err, v.pos) ELSE
            IF ReservedBitsSet(v.data) THEN fail("ErrInvalidZeroBits", v.pos) ELSE
        LET m == ReadFull(s, v.pos, 4)
        IN  IF m.err # "nil" THEN fail(m.err, m.pos) ELSE
        LET d == ReadFull(s, m.pos, 8)
        IN  IF d.err # "nil" THEN fail(d.err, d.pos) ELSE
        LET szMeta == LittleEndianValue(m.data)
            szData == LittleEndianValue(d.data)
            mb == SkipBlock(s, d.pos, szMeta, chunk)
        IN  IF mb.err # "nil" THEN fail(mb.err, mb.pos) ELSE
        LET bb == SkipBlock(s, mb.pos, szData, chunk)
        IN  IF bb.err # "nil" THEN fail(bb.err, bb.pos)
            ELSE [err |-> "nil", pos |-> bb.pos]

-----------------------------------------------------------------------------
(* Positional operations. *)

RECURSIVE ReadAllLoop(_, _, _)
ReadAllLoop(s, p, records) ==
    Only({
        IF r.err = "EOF" THEN [err |-> "nil", recs |-> records, pos |-> r.pos]
        ELSE IF r.err # "nil" THEN [err |-> r.err, recs |-> <<>>, pos |-> r.pos]
        ELSE ReadAllLoop(s, r.pos, Append(records, r.rec))
        : r \in {Read(s, p)}})

\* ReadAll(src): [err, recs, pos]
ReadAll(s, p) == ReadAllLoop(s, p, <<>>)

RECURSIVE CountLoop(_, _, _)
CountLoop(s, p, total) ==
    Only({
        IF r.err # "nil"
        THEN IF r.err = "EOF" THEN [err |-> "nil", n |-> total, pos |-> r.pos]
             ELSE [err |-> r.err, n |-> 0, pos |-> r.pos]
        ELSE CountLoop(s, r.pos, total + 1)
        : r \in {Read(s, p)}})

\* Count(src): [err, n, pos]
Count(s, p) == CountLoop(s, p, 0)

RECURSIVE SkipLoop(_, _, _, _)
\* the skip loop of Extract and Copy, entered with start > 0: [err, pos]
SkipLoop(s, p, start, chunk) ==
    Only({
        IF r.err # "nil" THEN r
        ELSE IF start - 1 = 0 THEN r
        ELSE SkipLoop(s, r.pos, start - 1, chunk)
        : r \in {skipRead(s, p, chunk)}})

\* the guard of Extract's skip loop with the threshold of Copy's
ExtractSkipsAfterFirst(start) == start > 1

\* the test that guards the skip loop of Extract: if start > 0
ExtractSkips(start) == start > 0

RECURSIVE ExtractCollectAhead(_, _, _, _, _)
\* the collect loop of Extract as it would be if, after the last record, it
\* read on into the magic of the next one
ExtractCollectAhead(s, p, count, allowPrematureEnd, result) ==
    Only({
        IF r.err # "nil"
        THEN IF r.err = "EOF" /\ allowPrematureEnd
             THEN [err |-> "nil", recs |-> result, nilList |-> FALSE, pos |-> r.pos]
             ELSE [err |-> r.err, recs |-> <<>>, nilList |-> TRUE, pos |-> r.pos]
        ELSE IF count - 1 = 0
             THEN [err |-> "nil", recs |-> Append(result, r.rec),
                   nilList |-> FALSE, pos |-> Min(Len(s), r.pos + Len(Magic))]
        ELSE ExtractCollectAhead(s, r.pos, count - 1, allowPrematureEnd,
                                 Append(result, r.rec))
        : r \in {Read(s, p)}})

RECURSIVE ExtractCollect(_, _, _, _, _)
\* the collect loop of Extract: [err, recs, nilList, pos]
ExtractCollect(s, p, count, allowPrematureEnd, result) ==
    Only({
        IF r.err # "nil"
        THEN IF r.err = "EOF" /\ allowPrematureEnd
             THEN [err |-> "nil", recs |-> result, nilList |-> FALSE, pos |-> r.pos]
             ELSE [err |-> r.err, recs |-> <<>>, nilList |-> TRUE, pos |-> r.pos]
        ELSE IF count - 1 = 0
             THEN [err |-> "nil", recs |-> Append(result, r.rec),
                   nilList |-> FALSE, pos |-> r.pos]
        ELSE ExtractCollect(s, r.pos, count - 1, allowPrematureEnd,
                            Append(result, r.rec))
        : r \in {Read(s, p)}})

\* Extract(src, start, count, allowPrematureEnd): [err, recs, nilList, pos]
Extract(s, p, start, count, allowPrematureEnd, chunk) ==
    IF start < 0
    THEN [err |-> "ErrInvalidStartOffset", recs |-> <<>>, nilList |-> TRUE, pos |-> p]
    ELSE IF count < 1
    THEN [err |-> "ErrInvalidCount", recs |-> <<>>, nilList |-> TRUE, pos |-> p]
    ELSE Only({
        IF sk.err # "nil"
        THEN IF sk.err = "EOF" /\ allowPrematureEnd
             THEN [err |-> "nil", recs |-> <<>>, nilList |-> FALSE, pos |-> sk.pos]
             ELSE [err |-> sk.err, recs |-> <<>>, nilList |-> TRUE, pos |-> sk.pos]
        ELSE ExtractCollect(s, sk.pos, count, allowPrematureEnd, <<>>)
        : sk \in {IF ExtractSkips(start) THEN SkipLoop(s, p, start, chunk)
                  ELSE [err |-> "nil", pos |-> p]}})

\* the test that guards the skip loop of Copy: if start > 1
CopySkips(start) == start > 1

RECURSIVE CopyCollectOneMore(_, _, _, _, _, _)
\* the loop of Copy as it would be if count were tested before it is
\* decremented
CopyCollectOneMore(s, p, count, compress, allowPrematureEnd, out) ==
    Only({
        IF r.err # "nil"
        THEN IF r.err = "EOF" /\ allowPrematureEnd
             THEN [err |-> "nil", out |-> out, pos |-> r.pos]
             ELSE [err |-> r.err, out |-> out, pos |-> r.pos]
        ELSE Only({
                 IF count = 0 THEN [err |-> "nil", out |-> o, pos |-> r.pos]
                 ELSE CopyCollectOneMore(s, r.pos, count - 1, compress,
                                         allowPrematureEnd, o)
                 : o \in {out \o WriteRecord(r.rec, compress)}})
        : r \in {Read(s, p)}})

RECURSIVE CopyCollect(_, _, _, _, _, _)
\* the read-and-write loop of Copy: [err, out, pos], out the bytes appended to dst
CopyCollect(s, p, count, compress, allowPrematureEnd, out) ==
    Only({
        IF r.err # "nil"
        THEN IF r.err = "EOF" /\ allowPrematureEnd
             THEN [err |-> "nil", out |-> out, pos |-> r.pos]
             ELSE [err |-> r.err, out |-> out, pos |-> r.pos]
        ELSE Only({
                 IF count - 1 = 0 THEN [err |-> "nil", out |-> o, pos |-> r.pos]
                 ELSE CopyCollect(s, r.pos, count - 1, compress, allowPrematureEnd, o)
                 : o \in {out \o WriteRecord(r.rec, compress)}})
        : r \in {Read(s, p)}})

\* Copy without the validation of start and count
CopyUnchecked(s, p, start, count, compress, allowPrematureEnd, chunk) ==
    Only({
        IF sk.err # "nil"
        THEN [err |-> sk.err, out |-> <<>>, pos |-> sk.pos]
        ELSE CopyCollect(s, sk.pos, count, compress, allowPrematureEnd, <<>>)
        : sk \in {IF CopySkips(start) THEN SkipLoop(s, p, start, chunk)
                  ELSE [err |-> "nil", pos |-> p]}})

\* Copy(src, dst, start, count, compress, allowPrematureEnd): [err, out, pos]
Copy(s, p, start, count, compress, allowPrematureEnd, chunk) ==
    IF start < 0 THEN [err |-> "ErrInvalidStartOffset", out |-> <<>>, pos |-> p]
    ELSE IF count < 1 THEN [err |-> "ErrInvalidCount", out |-> <<>>, pos |-> p]
    ELSE Only({
        IF sk.err # "nil"
        THEN IF sk.err = "EOF" /\ allowPrematureEnd
             THEN [err |-> "nil", out |-> <<>>, pos |-> sk.pos]
             ELSE [err |-> sk.err, out |-> <<>>, pos |-> sk.pos]
        ELSE CopyCollect(s, sk.pos, count, compress, allowPrematureEnd, <<>>)
        : sk \in {IF CopySkips(start) THEN SkipLoop(s, p, start, chunk)
                  ELSE [err |-> "nil", pos |-> p]}})

-----------------------------------------------------------------------------
(* Inputs of the model. *)

\* record types handed to Write (uint16); 257 does not fit the 8-bit field
Types == {0, TypeBinary, 255, 257}

\* the body of n bytes "AB..."
Body(n) == [i \in 1..n |-> 64 + i]
Bodies == {Body(n) : n \in 0..MaxBody}

NoMeta == [kind |-> "nil", val |-> <<>>]
Metas ==
    { NoMeta,
      [kind |-> "nilptr", val |-> <<>>],
      [kind |-> "slice", val |-> <<>>],
      [kind |-> "slice", val |-> <<1, 2>>],
      [kind |-> "array", val |-> <<1, 2>>] }

WriteArgs(t, b, m, c) == [recordType |-> t, data |-> b, meta |-> m, compress |-> c]

\* the records of the datasets the positional operations run on: with and
\* without metadata, compressed and not, with an empty body
Samples ==
    { WriteArgs(TypeBinary, Body(MaxBody), NoMeta, FALSE),
      WriteArgs(TypeText, Body(1), [kind |-> "slice", val |-> <<1, 2>>], TRUE),
      WriteArgs(TypeJSON, Body(MaxBody), [kind |-> "slice", val |-> <<>>], FALSE),
      WriteArgs(255, Body(0), [kind |-> "nilptr", val |-> <<>>], TRUE) }

-----------------------------------------------------------------------------
(* What the Write calls so far put on the stream. *)

\* the bytes one Write call appends
WrittenBytes(w) == Write(w.recordType, w.data, w.meta, w.compress).bytes

RECURSIVE StreamOf(_)
StreamOf(ws) == IF ws = <<>> THEN <<>> ELSE WrittenBytes(Head(ws)) \o StreamOf(Tail(ws))

\* offset in src of the i-th record written (1-based)
RecordOffset(i) == Len(StreamOf(SubSeq(written, 1, i - 1)))

\* the record a reader is to get back for the Write call w
Expected(w) ==
    [recordType |-> w.recordType % 256,
     meta |-> IF WriteHasMeta(w.meta) THEN JsonMarshal(w.meta.val) ELSE <<>>,
     body |-> w.data]

-----------------------------------------------------------------------------
(* State machine. *)

NoDamage == [kind |-> "none", rec |-> 0, at |-> 0]

NoRes ==
    [op |-> "none", chunk |-> 0, start |-> 0, count |-> 0, allow |-> FALSE,
     compress |-> FALSE, err |-> "nil", recs |-> <<>>, nilList |-> FALSE,
     n |-> 0, pos0 |-> 0]

Init ==
    /\ src = <<>>
    /\ written = <<>>
    /\ damage = NoDamage
    /\ pos = 0
    /\ dst = <<>>
    /\ res = NoRes
    /\ prev = NoRes
    /\ phase = "open"

\* one call Write(buf, t, b, m, c) on the bytes.Buffer behind src
WriteCall(w) ==
    LET out == Write(w.recordType, w.data, w.meta, w.compress)
    IN  /\ phase = "open"
        /\ damage = NoDamage
        /\ IF out.panic
           THEN /\ phase' = "panic"
                /\ UNCHANGED <<src, written>>
           ELSE /\ src' = src \o out.bytes
                /\ written' = Append(written, w)
                /\ phase' = phase
        /\ UNCHANGED <<damage, pos, dst, res, prev>>

\* Write on an empty stream, any arguments
DoWrite ==
    /\ written = <<>>
    /\ \E t \in Types, b \in Bodies, m \in Metas, c \in BOOLEAN :
          WriteCall(WriteArgs(t, b, m, c))

\* the stream loses its end: a non-empty proper prefix of the last record stays
DoTruncate ==
    /\ phase = "open"
    /\ damage = NoDamage
    /\ written # <<>>
    /\ \E k \in (RecordOffset(Len(written)) + 1)..(Len(src) - 1) :
          /\ src' = SubSeq(src, 1, k)
          /\ damage' = [kind |-> "trunc", rec |-> Len(written),
                        at |-> k - RecordOffset(Len(written))]
    /\ UNCHANGED <<written, pos, dst, res, prev, phase>>

\* the bits of the type+flags word between the type and the compressed flag
ReservedBits == 8..30

\* the reserved bits validation looks at: (v >> 16) & 0x7F
CheckedBits == 16..22

\* one reserved bit, among bits, of the type+flags word of a record is
\* flipped to 1
SetReserved(bits) ==
    /\ phase = "open"
    /\ damage = NoDamage
    /\ \E i \in 1..Len(written), b \in bits :
          LET k == RecordOffset(i) + 5 + (b \div 8)
          IN  /\ src' = [src EXCEPT ![k] = @ + 2 ^ (b % 8)]
              /\ damage' = [kind |-> "bits", rec |-> i, at |-> b]
    /\ UNCHANGED <<written, pos, dst, res, prev, phase>>

DoSetReserved == SetReserved(ReservedBits)

\* one byte of the magic of a record is changed; kinds are the kinds of
\* damage the record may already carry
CorruptMagic(kinds) ==
    /\ phase = "open"
    /\ damage.kind \in kinds
    /\ \E i \in 1..Len(written), j \in 1..Len(Magic) :
          /\ damage.kind # "none" => damage.rec = i
          /\ src' = [src EXCEPT ![RecordOffset(i) + j] = (@ + 1) % 256]
          /\ damage' = [kind |-> IF damage.kind = "none" THEN "magic"
                                  ELSE "magic+" \o damage.kind,
                        rec |-> i, at |-> j]
    /\ UNCHANGED <<written, pos, dst, res, prev, phase>>

\* a bad magic, alone or in a header whose reserved bits are not zero
DoCorruptMagic == CorruptMagic({"none", "bits"})

\* Read(reader) at the reader's position
DoRead ==
    /\ phase = "open"
    /\ LET r == Read(src, pos)
       IN  /\ res' = [NoRes EXCEPT !.op = "Read", !.err = r.err, !.pos0 = pos,
                         !.recs = IF r.err = "nil" THEN <<r.rec>> ELSE <<>>,
                         !.nilList = r.err # "nil"]
           /\ pos' = r.pos
    /\ phase' = "done"
    /\ UNCHANGED <<src, written, damage, dst, prev>>

\* skipRead(reader) at the reader's position; the reader hands out at most
\* chunk bytes per Read call (0: all that is asked for, as bytes.Reader)
DoSkip ==
    /\ phase = "open"
    /\ \E chunk \in 0..MaxChunk :
          LET r == skipRead(src, pos, chunk)
          IN  /\ res' = [NoRes EXCEPT !.op = "skipRead", !.err = r.err,
                            !.pos0 = pos, !.chunk = chunk]
              /\ pos' = r.pos
    /\ phase' = "done"
    /\ UNCHANGED <<src, written, damage, dst, prev>>

Next ==
    DoWrite \/ DoTruncate \/ DoSetReserved \/ DoCorruptMagic \/ DoRead \/ DoSkip

\* one record written, possibly damaged, then read or skipped
Spec == Init /\ [][Next]_vars

-----------------------------------------------------------------------------
(* Datasets: several records written one after the other, then one           *)
(* positional operation on a bytes.Reader over the stream.                   *)

\* Write of one more record of the dataset, while the stream holds less than max
AppendSample(max) ==
    /\ Len(written) < max
    /\ \E w \in Samples : WriteCall(w)

\* start and count arguments tried, the invalid ones (-1, 0) included
Starts == -1..MaxRecs
Counts == 0..MaxRecs

\* Count(reader)
CountCall ==
    /\ phase = "open"
    /\ LET r == Count(src, pos)
       IN  /\ res' = [NoRes EXCEPT !.op = "Count", !.err = r.err, !.n = r.n,
                         !.pos0 = pos]
           /\ pos' = r.pos
    /\ phase' = "done"
    /\ UNCHANGED <<src, written, damage, dst, prev>>

\* Extract(reader, start, count, allowPrematureEnd)
ExtractCall ==
    /\ phase = "open"
    /\ \E start \in Starts, count \in Counts, allow \in BOOLEAN :
          LET r == Extract(src, pos, start, count, allow, 0)
          IN  /\ res' = [NoRes EXCEPT !.op = "Extract", !.start = start,
                            !.count = count, !.allow = allow, !.err = r.err,
                            !.recs = r.recs, !.nilList = r.nilList, !.pos0 = pos]
              /\ pos' = r.pos
    /\ phase' = "done"
    /\ UNCHANGED <<src, written, damage, dst, prev>>

\* Copy(reader, dst, start, count, compress, allowPrematureEnd)
CopyCall ==
    /\ phase = "open"
    /\ \E start \in Starts, count \in Counts, c \in BOOLEAN, allow \in BOOLEAN :
          LET r == Copy(src, pos, start, count, c, allow, 0)
          IN  /\ res' = [NoRes EXCEPT !.op = "Copy", !.start = start,
                            !.count = count, !.allow = allow, !.compress = c,
                            !.err = r.err, !.pos0 = pos]
              /\ pos' = r.pos
              /\ dst' = dst \o r.out
    /\ phase' = "done"
    /\ UNCHANGED <<src, written, damage, prev>>

DoAppend == AppendSample(MaxRecs)
DoCount == damage = NoDamage /\ CountCall
DoExtract == damage = NoDamage /\ ExtractCall
DoCopy == damage = NoDamage /\ CopyCall

NextStream == DoAppend \/ DoCount \/ DoExtract \/ DoCopy

\* a dataset of up to MaxRecs records, then Count, Extract or Copy
SpecStream == Init /\ [][NextStream]_vars

DoAppendCut == AppendSample(MaxTruncRecs + 1)
DoCountCut == damage.kind = "trunc" /\ CountCall
DoExtractCut == damage.kind = "trunc" /\ ExtractCall
DoCopyCut == damage.kind = "trunc" /\ CopyCall

NextTrunc == DoAppendCut \/ DoTruncate \/ DoCountCut \/ DoExtractCut \/ DoCopyCut

\* up to MaxTruncRecs complete records and a cut-off one, then Count,
\* Extract or Copy
SpecTrunc == Init /\ [][NextTrunc]_vars

-----------------------------------------------------------------------------
(* Damaged datasets: a few records, at most one of them damaged (cut off,    *)
(* bad magic, a checked reserved bit set, or a compressed block that does    *)
(* not decode), then one positional operation.                               *)

\* most records in a damaged dataset
MaxDamRecs == 2

\* the records of a damaged dataset: one plain, one with compressed
\* metadata and body
DamageSamples == { w \in Samples : w.recordType \in {TypeBinary, TypeText} }

\* the length fields of the header at offset off of src
MetaLenAt(off) == LittleEndianValue(SubSeq(src, off + 9, off + 12))
BodyLenAt(off) == LittleEndianValue(SubSeq(src, off + 13, off + HeaderLen))

\* the offsets, within record i, of the last byte of each compressed block
\* the record holds: the metadata block, and the body when the flag is set
FrameEnds(i) ==
    LET off == RecordOffset(i)
        lm  == MetaLenAt(off)
        lb  == BodyLenAt(off)
    IN  (IF lm > 0 THEN {HeaderLen + lm} ELSE {}) \cup
        (IF lb > 0 /\ WordCompressed(SubSeq(src, off + 5, off + 8))
         THEN {HeaderLen + lm + lb} ELSE {})

DoAppendFew ==
    /\ Len(written) < MaxDamRecs
    /\ \E w \in DamageSamples : WriteCall(w)

DoSetChecked == SetReserved(CheckedBits)

DoCorruptHeader == CorruptMagic({"none"})

\* the last byte of a compressed block of a record is changed: the lengths
\* stay, the block no longer decodes
DoCorruptFrame ==
    /\ phase = "open"
    /\ damage = NoDamage
    /\ \E i \in 1..Len(written) : \E k \in FrameEnds(i) :
          /\ src' = [src EXCEPT ![RecordOffset(i) + k] = (@ + 1) % 256]
          /\ damage' = [kind |-> "frame", rec |-> i, at |-> k]
    /\ UNCHANGED <<written, pos, dst, res, prev, phase>>

NextDamaged ==
    \/ DoAppendFew
    \/ DoTruncate
    \/ DoSetChecked
    \/ DoCorruptHeader
    \/ DoCorruptFrame
    \/ CountCall
    \/ ExtractCall
    \/ CopyCall

\* a dataset of up to MaxDamRecs records, whole or damaged, then Count,
\* Extract or Copy
SpecDamaged == Init /\ [][NextDamaged]_vars

-----------------------------------------------------------------------------
(* Cursor: Extract on a reader over a dataset, then a second operation on    *)
(* the same reader, which goes on from where Extract left it.                *)

\* Extract(reader, 0, count, allowPrematureEnd) on the reader a first
\* Extract has used
ThenExtract ==
    /\ phase = "done"
    /\ res.op = "Extract"
    /\ prev = NoRes
    /\ \E count \in Counts, allow \in BOOLEAN :
          LET r == Extract(src, pos, 0, count, allow, 0)
          IN  /\ res' = [NoRes EXCEPT !.op = "Extract", !.start = 0,
                            !.count = count, !.allow = allow, !.err = r.err,
                            !.recs = r.recs, !.nilList = r.nilList, !.pos0 = pos]
              /\ pos' = r.pos
    /\ prev' = res
    /\ UNCHANGED <<src, written, damage, dst, phase>>

\* Count(reader) on the reader a first Extract has used
ThenCount ==
    /\ phase = "done"
    /\ res.op = "Extract"
    /\ prev = NoRes
    /\ LET r == Count(src, pos)
       IN  /\ res' = [NoRes EXCEPT !.op = "Count", !.err = r.err, !.n = r.n,
                         !.pos0 = pos]
           /\ pos' = r.pos
    /\ prev' = res
    /\ UNCHANGED <<src, written, damage, dst, phase>>

NextCursor == DoAppend \/ DoExtract \/ ThenExtract \/ ThenCount

\* a dataset of up to MaxRecs records, Extract, then Extract or Count on the
\* same reader
SpecCursor == Init /\ [][NextCursor]_vars

-----------------------------------------------------------------------------
(* Vocabulary of the properties. *)

\* number of records written to src
M == Len(written)

\* the records a reader is to get back for the Write calls from..to (1-based)
ExpectedRange(from, to) ==
    [i \in 1..Max(0, to - from + 1) |-> Expected(written[from + i - 1])]

TypeAndBody(r) == <<r.recordType, r.body>>

\* an operation that ran from the start of an undamaged stream
RanOnWhole(op) ==
    /\ phase = "done"
    /\ res.op = op
    /\ res.pos0 = 0
    /\ damage = NoDamage

ValidWindow == res.start >= 0 /\ res.count >= 1

-----------------------------------------------------------------------------
(* Properties. *)

ExtractWindow ==
    (RanOnWhole("Extract") /\ ValidWindow /\ res.start + res.count <= M) =>
        /\ res.err = "nil"
        /\ ~res.nilList
        /\ res.recs = ExpectedRange(res.start + 1, res.start + res.count)

\* a window that starts after the first record and ends before the last
ExtractWindowWitness ==
    /\ RanOnWhole("Extract")
    /\ res.start = 1 /\ res.count = 1 /\ M = 3
    /\ written[1] # written[2] /\ written[2] # written[3]
    /\ written[2].compress /\ WriteHasMeta(written[2].meta)
    /\ res.err = "nil" /\ Len(res.recs) = 1

\* C3 (Extract premature end): Extract from the start of a stream of M
\* well-formed records with start >= 0, count >= 1 and M < start+count
\* returns, with allowPrematureEnd, no error and the max(0, M-start) records
\* start..M-1 in order, whether the end is met while skipping or while
\* collecting; without it, io.EOF and no records.
ExtractPrematureEnd ==
    (RanOnWhole("Extract") /\ ValidWindow /\ M < res.start + res.count) =>
        IF res.allow
        THEN /\ res.err = "nil"
             /\ Len(res.recs) = Max(0, M - res.start)
             /\ res.recs = ExpectedRange(res.start + 1, M)
        ELSE /\ res.err = "EOF"
             /\ res.recs = <<>>
             /\ res.nilList

\* the end was met while collecting, after a skip, and part of the window
\* came back
ExtractPrematureEndWitness ==
    /\ RanOnWhole("Extract")
    /\ res.allow /\ res.start = 1 /\ res.count = 3 /\ M = 3
    /\ res.err = "nil" /\ Len(res.recs) = 2

\* C4 (Copy preserves content): after Copy from the start of a stream of M
\* well-formed records with start >= 0, count >= 1 and start+count <= M
\* (start = 1 included), reading dst from its beginning yields exactly count
\* records, the i-th with the type and body of source record start+i.
CopyPreservesWindow ==
    (RanOnWhole("Copy") /\ ValidWindow /\ res.start + res.count <= M) =>
        LET back == ReadAll(dst, 0)
            want == ExpectedRange(res.start + 1, res.start + res.count)
        IN  /\ back.err = "nil"
            /\ Len(back.recs) = res.count
            /\ \A i \in 1..Len(back.recs) :
                  TypeAndBody(back.recs[i]) = TypeAndBody(want[i])

\* C5 (Count is exact): Count from the start of a stream of N records
\* written with Write (compressed or not, with or without metadata, empty
\* bodies included) returns N and no error.
CountExact ==
    RanOnWhole("Count") => (res.err = "nil" /\ res.n = M)

\* three records counted, a compressed one with an empty body and one with
\* metadata among them
CountExactWitness ==
    /\ RanOnWhole("Count")
    /\ M = 3 /\ res.n = 3
    /\ \E i \in 1..M : written[i].compress /\ written[i].data = <<>>
    /\ \E i \in 1..M : WriteHasMeta(written[i].meta) /\ ~written[i].compress

\* C6 (clean end versus truncation in Read): Read returns io.EOF only when
\* no byte is left where the header is expected; on a stream that ends
\* inside a record, after at least one of its bytes, the error is another.
ReadEOFOnlyAtBoundary ==
    (phase = "done" /\ res.op = "Read" /\ res.err = "EOF") =>
        Avail(src, res.pos0) = 0

\* C7 (truncation is never a natural end): on a stream of N complete records
\* and a non-empty proper prefix of one more, Count returns an error, and
\* Extract whose skipping or collecting gets to the cut-off record returns
\* an error other than io.EOF, also when allowPrematureEnd is set.
TruncationIsAnError ==
    (phase = "done" /\ damage.kind = "trunc" /\ res.pos0 = 0) =>
        /\ res.op = "Count" => res.err \notin {"nil", "EOF"}
        /\ (res.op = "Extract" /\ ValidWindow /\ res.start + res.count >= M) =>
              res.err \notin {"nil", "EOF"}

\* C8 (reserved bits): a record whose type+flags word has one of the bits
\* 8..30 set makes Read and skipRead fail with ErrInvalidZeroBits.
ReservedBitsDetected ==
    (phase = "done" /\ damage.kind = "bits" /\ res.op \in {"Read", "skipRead"}) =>
        res.err = "ErrInvalidZeroBits"

\* C9 (skip consumes exactly one record): on any reader, one that hands out
\* fewer bytes than asked for included, a successful skipRead of a
\* well-formed record leaves the reader 20 + metaLength + bodyLength bytes
\* further, where Read would leave it; and when fewer bytes than declared
\* are there, skipRead fails.
SkipConsumesOneRecord ==
    (phase = "done" /\ res.op = "skipRead" /\ res.pos0 = 0 /\ M = 1) =>
        /\ (damage = NoDamage /\ res.err = "nil") =>
              /\ pos = HeaderLen + LittleEndianValue(SubSeq(src, 9, 12))
                              + LittleEndianValue(SubSeq(src, 13, 20))
              /\ pos = Read(src, 0).pos
        /\ damage.kind = "trunc" => res.err # "nil"

\* C10 (Copy ends as Extract does): Copy from the start of a stream of M
\* well-formed records with start >= 0, count >= 1 and M < start+count
\* returns io.EOF without allowPrematureEnd and, with it, no error and the
\* max(0, M-start) records start..M-1 in dst; and for all arguments Copy
\* fails exactly when Extract fails and writes as many records as Extract
\* returns.
CopyEndsAsExtract ==
    RanOnWhole("Copy") =>
        LET back == ReadAll(dst, 0)
            ex == Extract(src, 0, res.start, res.count, res.allow, 0)
            want == ExpectedRange(res.start + 1, M)
        IN  /\ (ValidWindow /\ M < res.start + res.count) =>
                  IF res.allow
                  THEN /\ res.err = "nil"
                       /\ back.err = "nil"
                       /\ Len(back.recs) = Max(0, M - res.start)
                       /\ \A i \in 1..Len(back.recs) :
                             TypeAndBody(back.recs[i]) = TypeAndBody(want[i])
                  ELSE res.err = "EOF"
            /\ (res.err = "nil") = (ex.err = "nil")
            /\ Len(back.recs) = Len(ex.recs)

\* C11 (eager validation): Extract and Copy called with start < 0 return
\* ErrInvalidStartOffset, and called with start >= 0 and count < 1 return
\* ErrInvalidCount, whatever allowPrematureEnd is and whatever the stream
\* holds (nothing, whole records, a damaged record); the reader stays where
\* it was, nothing is appended to dst, and Extract returns no list.
EagerValidation ==
    (phase = "done" /\ res.op \in {"Extract", "Copy"} /\ ~ValidWindow) =>
        /\ res.err = IF res.start < 0 THEN "ErrInvalidStartOffset"
                     ELSE "ErrInvalidCount"
        /\ pos = res.pos0
        /\ dst = <<>>
        /\ res.recs = <<>>
        /\ res.op = "Extract" => res.nilList

\* Copy with start >= 0 and count < 1 on a stream whose first record has a
\* bad magic
EagerValidationWitness ==
    /\ phase = "done"
    /\ res.op = "Copy"
    /\ res.start >= 0
    /\ res.count < 1
    /\ res.err = "ErrInvalidCount"
    /\ damage.kind = "magic"
    /\ damage.rec = 1

RECURSIVE RawRecords(_, _)
\* the records laid out in s from offset p on, as stored: the type+flags
\* word and the two blocks of each, cut out by the length fields
RawRecords(s, p) ==
    IF p + HeaderLen > Len(s) THEN <<>>
    ELSE LET lm == LittleEndianValue(SubSeq(s, p + 9, p + 12))
             lb == LittleEndianValue(SubSeq(s, p + 13, p + HeaderLen))
         IN  <<[word |-> SubSeq(s, p + 5, p + 8),
                rawMeta |-> SubSeq(s, p + HeaderLen + 1, p + HeaderLen + lm),
                rawBody |-> SubSeq(s, p + HeaderLen + lm + 1,
                                   p + HeaderLen + lm + lb)]>>
             \o RawRecords(s, p + HeaderLen + lm + lb)

\* number of source records that lie wholly before the reader's position
Consumed == Cardinality({ i \in 1..M : RecordOffset(i + 1) <= pos })

\* number of source records read before the first one Copy wrote to dst
CopiedFrom == Consumed - Len(RawRecords(dst, 0))

\* C12 (Copy re-emission flags): every record Copy writes to dst has bit 31
\* of its type+flags word equal to Copy's compress argument, whatever the
\* source record's compression was (an empty body included), and has a
\* metadata block (metaLength > 0, stored compressed) exactly when the
\* source record it was read from had non-empty metadata, the decoded
\* metadata bytes being equal.
CopyReemits ==
    RanOnWhole("Copy") =>
        LET raw == RawRecords(dst, 0)
        IN  \A i \in 1..Len(raw) :
               LET from == Expected(written[CopiedFrom + i])
               IN  /\ raw[i].word[4] \div 128 = (IF res.compress THEN 1 ELSE 0)
                   /\ (raw[i].rawMeta # <<>>) <=> (from.meta # <<>>)
                   /\ raw[i].rawMeta # <<>> =>
                          /\ raw[i].rawMeta # from.meta
                          /\ DecodeAll(raw[i].rawMeta) =
                                [err |-> "nil", data |-> from.meta]

\* Copy with compress set wrote three records: one from an uncompressed
\* source record with metadata, one from a record without metadata, one
\* from a record with an empty body
CopyReemitsWitness ==
    /\ RanOnWhole("Copy") /\ res.err = "nil" /\ res.compress
    /\ Len(RawRecords(dst, 0)) = 3
    /\ \E i \in 1..3 : /\ ~written[CopiedFrom + i].compress
                        /\ Expected(written[CopiedFrom + i]).meta # <<>>
    /\ \E i \in 1..3 : Expected(written[CopiedFrom + i]).meta = <<>>
    /\ \E i \in 1..3 : written[CopiedFrom + i].data = <<>>

\* C13 (magic check): at a position where at least 4 bytes are available
\* and they are not "SRF0" in any byte, Read and skipRead (whatever the
\* reader's chunking) fail with ErrInvalidHeader; the magic is tested before
\* the reserved bits, so a bad magic in a header with reserved bits set is
\* ErrInvalidHeader too; no metadata or body byte is consumed.
MagicChecked ==
    (/\ phase = "done"
     /\ res.op \in {"Read", "skipRead"}
     /\ Avail(src, res.pos0) >= Len(Magic)
     /\ SubSeq(src, res.pos0 + 1, res.pos0 + Len(Magic)) # Magic) =>
        /\ res.err = "ErrInvalidHeader"
        /\ pos <= res.pos0 + HeaderLen
        /\ res.recs = <<>>

\* skipRead on a short-read reader met a header whose last magic byte is
\* wrong and whose checked reserved bits are not zero
MagicCheckedWitness ==
    /\ phase = "done"
    /\ res.op = "skipRead" /\ res.chunk = 1
    /\ damage.kind = "magic+bits" /\ damage.at = Len(Magic)
    /\ ReservedBitsSet(SubSeq(src, 5, 8))
    /\ res.err = "ErrInvalidHeader"
    /\ pos = Len(Magic)

\* C14 (header encoding, type truncation): for every type t in 0..65535 and
\* either isCompressed, the type+flags word RawWrite stores (through Write)
\* has t mod 256 in bits 0-7, zeros in bits 8-30 and bit 31 set exactly when
\* isCompressed; writing a type above 255 succeeds, and Read of the record
\* reports Type() = t mod 256.
TypeWordEncoding ==
    (M = 1 /\ damage = NoDamage) =>
        LET w == written[1]
            word == SubSeq(src, Len(Magic) + 1, Len(Magic) + 4)
        IN  /\ word[1] = w.recordType % 256
            /\ word[2] = 0
            /\ word[3] = 0
            /\ word[4] = (IF w.compress THEN 128 ELSE 0)
            /\ RanOnWhole("Read") =>
                   /\ res.err = "nil"
                   /\ res.recs[1].recordType = w.recordType % 256

\* a compressed record written with type 257 was read back as type 1
TypeWordEncodingWitness ==
    /\ RanOnWhole("Read") /\ M = 1
    /\ written[1].recordType = 257
    /\ written[1].compress
    /\ SubSeq(src, 5, 8) = <<1, 0, 0, 128>>
    /\ res.err = "nil"
    /\ res.recs[1].recordType = 1

\* the arguments of the RawWrite call that the Write call w makes
RawWriteArgs(w) ==
    [rType |-> w.recordType,
     rawMeta |-> IF WriteHasMeta(w.meta) THEN EncodeAll(JsonMarshal(w.meta.val))
                 ELSE <<>>,
     rawBody |-> IF w.compress THEN EncodeAll(w.data) ELSE w.data,
     isCompressed |-> w.compress]

RECURSIVE LaidOut(_, _, _)
\* s holds, from offset p to its end, exactly the records of the RawWrite
\* calls, one after the other, each as magic, type+flags word, 4-byte
\* metaLength, 8-byte bodyLength, metadata block, body block
LaidOut(s, p, calls) ==
    IF calls = <<>> THEN p = Len(s)
    ELSE LET c == Head(calls)
             lm == Len(c.rawMeta)
             lb == Len(c.rawBody)
         IN  /\ Len(s) >= p + HeaderLen + lm + lb
             /\ SubSeq(s, p + 1, p + 4) = Magic
             /\ s[p + 5] = c.rType % 256
             /\ s[p + 8] \div 128 = (IF c.isCompressed THEN 1 ELSE 0)
             /\ LittleEndianValue(SubSeq(s, p + 9, p + 12)) = lm
             /\ LittleEndianValue(SubSeq(s, p + 13, p + 20)) = lb
             /\ SubSeq(s, p + 21, p + 20 + lm) = c.rawMeta
             /\ SubSeq(s, p + 21 + lm, p + 20 + lm + lb) = c.rawBody
             /\ LaidOut(s, p + 20 + lm + lb, Tail(calls))

\* C15 (wire layout): each RawWrite call appends the magic, the type+flags
\* word, the 4-byte metaLength = len(rawMeta), the 8-byte bodyLength =
\* len(rawBody), then rawMeta (when not empty) and rawBody, that is
\* 20 + len(rawMeta) + len(rawBody) bytes, and the output of any sequence of
\* writes is the concatenation of these records with nothing between them.
WireLayout ==
    damage = NoDamage =>
        LaidOut(src, 0, [i \in 1..M |-> RawWriteArgs(written[i])])

\* three records laid out one after the other, one with metadata and a
\* compressed body, one without metadata
WireLayoutWitness ==
    /\ damage = NoDamage /\ M = 3
    /\ RawWriteArgs(written[1]).rawMeta = <<>>
    /\ RawWriteArgs(written[2]).rawMeta # <<>>
    /\ RawWriteArgs(written[2]).isCompressed
    /\ RawWriteArgs(written[2]).rawBody # <<>>
    /\ LittleEndianValue(SubSeq(src, RecordOffset(2) + 9, RecordOffset(2) + 12))
          = Len(RawWriteArgs(written[2]).rawMeta)
    /\ Len(src) > 3 * HeaderLen

\* the error a reader reports when it meets the damage
DamageError ==
    CASE damage.kind = "magic" -> "ErrInvalidHeader"
      [] damage.kind = "bits"  -> "ErrInvalidZeroBits"
      [] damage.kind = "frame" -> "CorruptFrame"
      [] OTHER -> "nil"

\* op ran from the start of a stream where one of the first start+count
\* records has a bad magic or a checked reserved bit set, or one of the
\* records start..start+count-1 has a block that does not decode
MetNonBoundaryDamage(op) ==
    /\ phase = "done" /\ res.op = op /\ res.pos0 = 0
    /\ ValidWindow
    /\ damage.kind \in {"magic", "bits", "frame"}
    /\ damage.rec <= res.start + res.count
    /\ damage.kind = "frame" => damage.rec > res.start

\* what C16 asks of the result of such an operation
NonBoundaryErrorKept ==
    /\ res.err = DamageError
    /\ res.recs = <<>>
    /\ res.op = "Extract" => res.nilList
    /\ pos <= RecordOffset(damage.rec + 1)

\* C16 (non-boundary errors are never suppressed): when one of the first
\* start+count records has a bad magic or a nonzero checked reserved bit,
\* or a record of the collected window has a compressed block the
\* decompressor rejects, Extract and Copy return that error for either
\* allowPrematureEnd, Extract returns no partial list, and no record after
\* the failing one is read.
NonBoundaryErrors ==
    \A op \in {"Extract", "Copy"} : MetNonBoundaryDamage(op) => NonBoundaryErrorKept

\* the part of C16 that is about Extract
ExtractNonBoundaryErrors == MetNonBoundaryDamage("Extract") => NonBoundaryErrorKept

\* the part of C16 that is about Copy, start = 1 left out
CopyNonBoundaryErrors ==
    (MetNonBoundaryDamage("Copy") /\ res.start # 1) => NonBoundaryErrorKept

\* a stream whose headers are all valid and where a record ahead of the
\* window start..start+count-1 holds a block that does not decode
FrameDamageAhead ==
    /\ damage.kind = "frame"
    /\ res.pos0 = 0
    /\ damage.rec <= res.start
    /\ res.count >= 1
    /\ res.start + res.count <= M

\* Count reads, and so decodes, every record
CountDecodes ==
    (phase = "done" /\ res.op = "Count" /\ res.pos0 = 0 /\ damage.kind = "frame") =>
        res.err = "CorruptFrame"

\* Extract skips the records ahead of start without decoding them
ExtractSkipsUndecoded ==
    (phase = "done" /\ res.op = "Extract" /\ FrameDamageAhead) =>
        /\ res.err = "nil"
        /\ res.recs = ExpectedRange(res.start + 1, res.start + res.count)

\* Copy skips the records ahead of start without decoding them
CopySkipsUndecoded ==
    (phase = "done" /\ res.op = "Copy" /\ FrameDamageAhead) =>
        /\ res.err = "nil"
        /\ ReadAll(dst, 0).recs = ExpectedRange(res.start + 1, res.start + res.count)

\* C17 (skipping never decodes, counting always does): on a stream with
\* valid headers and lengths where a record of index < start holds a
\* metadata or body block the decompressor rejects, Extract(start, count)
\* and Copy with the same start succeed and return / copy the records
\* start..start+count-1, whereas Count fails with the decompression error.
SkipNeverDecodes == CountDecodes /\ ExtractSkipsUndecoded /\ CopySkipsUndecoded

\* C18 (metadata of any kind): Write accepts metadata of every kind that is
\* not nil and that JSON can serialize (pointer, map, slice, struct, array,
\* string, number, boolean): it returns normally and stores the metadata as
\* a compressed block with metaLength > 0; metadata is left out only for
\* nil and for a typed nil pointer.
WriteAcceptsMeta ==
    /\ phase # "panic"
    /\ damage = NoDamage =>
          \A i \in 1..M :
             (MetaLenAt(RecordOffset(i)) > 0)
                <=> written[i].meta.kind \notin {"nil", "nilptr"}

\* a first Extract(a, b) from the start of a whole stream succeeded, with
\* records left after its window: a >= 0, b >= 1, a + b < M
FirstExtract(r) ==
    /\ r.op = "Extract" /\ r.pos0 = 0 /\ r.err = "nil"
    /\ r.start >= 0 /\ r.count >= 1
    /\ r.start + r.count < M

\* C19 (composition through the forward-only cursor): for a >= 0, b >= 1,
\* c >= 1 with a+b+c <= M, a successful Extract(stream, a, b) leaves the
\* reader at the header of record a+b; Extract(stream, 0, c) on the same
\* reader then returns the records a+b .. a+b+c-1, which is what
\* Extract(fresh, a+b, c) returns on a fresh reader; Count on the reader
\* after such an Extract returns M-(a+b).
CursorComposes ==
    /\ (phase = "done" /\ prev = NoRes /\ FirstExtract(res)) =>
          pos = RecordOffset(res.start + res.count + 1)
    /\ (phase = "done" /\ FirstExtract(prev)) =>
          LET ab == prev.start + prev.count
          IN  /\ res.pos0 = RecordOffset(ab + 1)
              /\ (res.op = "Extract" /\ res.count >= 1 /\ ab + res.count <= M) =>
                    /\ res.err = "nil"
                    /\ res.recs = ExpectedRange(ab + 1, ab + res.count)
                    /\ res.recs = Extract(src, 0, ab, res.count, res.allow, 0).recs
              /\ res.op = "Count" => (res.err = "nil" /\ res.n = M - ab)

\* Extract(1, 1) then Extract(0, 1) on the same reader over three records
\* gave the third record
CursorComposesWitness ==
    /\ phase = "done" /\ M = 3
    /\ FirstExtract(prev) /\ prev.start = 1 /\ prev.count = 1
    /\ res.op = "Extract" /\ res.count = 1
    /\ res.err = "nil"
    /\ res.recs = <<Expected(written[3])>>
    /\ res.pos0 = RecordOffset(3) /\ res.pos0 > 0
    /\ written[3] # written[2]

\* the arguments of the RawWrite call WriteRecord makes for the record r
WriteRecordArgs(r, compress) ==
    [rType |-> r.recordType,
     rawMeta |-> IF Len(r.meta) > 0 THEN EncodeAll(r.meta) ELSE <<>>,
     rawBody |-> IF compress THEN EncodeAll(r.body) ELSE r.body,
     isCompressed |-> compress]

\* C20 (dst stays a valid record prefix): whenever Copy returns, with
\* success, with EOF, or with any error of the source (cut-off record, bad
\* magic, reserved bit, undecodable block, invalid argument), the bytes it
\* appended to dst are exactly the concatenation of n complete records,
\* 0 <= n <= count, which are, in order, n consecutive source records that
\* were read in full before the return; no partial record is appended.
DstWholeRecords ==
    (phase = "done" /\ res.op = "Copy") =>
        \E k \in 0..M, n \in 0..M :
           /\ n <= Max(res.count, 0)
           /\ k + n <= M
           /\ RecordOffset(k + n + 1) <= pos
           /\ LaidOut(dst, 0, [i \in 1..n |->
                    WriteRecordArgs(Expected(written[k + i]), res.compress)])

\* Copy of two records failed on the second, whose block does not decode,
\* after the first was appended to dst
DstWholeRecordsWitness ==
    /\ phase = "done" /\ res.op = "Copy"
    /\ res.start = 0 /\ res.count = 2
    /\ damage.kind = "frame" /\ damage.rec = 2
    /\ res.err = "CorruptFrame"
    /\ Len(RawRecords(dst, 0)) = 1
    /\ dst = WriteRecord(Expected(written[1]), res.compress)

=============================================================================
